---- MODULE Spec2Model ----
(***************************************************************************)
(* Coffee feed generator: the post store (storage.ts), the feed pipeline   *)
(* and its HTTP routes (index.ts), and the bearer-token verifier and the   *)
(* personalized timeline (timeline.ts), and the firehose clients that feed  *)
(* the store (firehose.ts, in its ws and its @atproto/sync variant).        *)
(*                                                                         *)
(* Strings whose characters the code inspects (DIDs, scopes) are sequences *)
(* of character codes.  A createdAt string is either an ISO timestamp,     *)
(* represented by the instant it denotes (a natural number of hours), or a *)
(* string Date cannot parse, represented by Garbage.  JavaScript's NaN is  *)
(* the value NaN, on which every arithmetic operator below is defined      *)
(* explicitly.                                                             *)
(***************************************************************************)
EXTENDS Integers, Sequences, FiniteSets, TLC

VARIABLES
    phase,      \* main(): "constructed", "loaded", "purging", "running", "failed"
    now,        \* the wall clock read by purgeOldPosts / verifyAuthToken
    posts,      \* PostStorage.db.data.posts (in memory)
    disk,       \* the JSON file behind the lowdb adapter
    wq,         \* durable writes issued and not yet settled, oldest first
    hpc,        \* per in-flight addPost call: "idle", "writing", "done"
    harg,       \* per call: the record passed to addPost
    hres,       \* per call: "none", "true", "false", "error" (rejected)
    http,       \* the last HTTP request served and its response
    life,       \* FirehoseClient: "constructed", "started", "stopped"
    ws,         \* FirehoseClient.ws: 0 (null) or the socket it refers to
    socks,      \* per WebSocket object: "unused", "connecting", "open",
                \* "failed" (error emitted), "closing" (close() called), "closed"
    timers,     \* pending setTimeout(() => this.connect(), delay), oldest first
    frames,     \* the message handlers started so far, in frame-arrival order
    sync        \* @atproto/sync client: the last event handled and its addPost call

storevars == <<phase, now, posts, disk, wq, hpc, harg, hres>>
fhvars == <<life, ws, socks, timers, frames, sync>>
vars == <<phase, now, posts, disk, wq, hpc, harg, hres, http, life, ws, socks, timers, frames,
         sync>>

-----------------------------------------------------------------------------
(* Bounds *)

NumCalls == 3        \* addPost calls that may be in flight together
MaxDisk == 2         \* records in the file found at startup
MaxFeedStore == 3    \* records in a snapshot handed to the feed pipeline
BigStoreExtra == 2   \* the large snapshots hold MaxLimit+1 .. MaxLimit+BigStoreExtra records
MaxSockets == 3      \* WebSocket objects alive or referenced at a time
MaxFrames == 2       \* inbound frames received after start()

(* Program constants *)

RetentionHours == 18     \* storage.ts:41
DefaultLimit == 50       \* index.ts:81, timeline.ts:216
MaxLimit == 100          \* index.ts:81, timeline.ts:216

-----------------------------------------------------------------------------
(* JavaScript values *)

NaN == -1000000
Garbage == -1            \* a createdAt string that Date cannot parse
NotAString == -2         \* a createdAt that is no string

CoffeeType == "coffee.outof.beanPost"
OtherType == "app.bsky.feed.post"

\* "did:a", "did:c", "bob" as character codes
DidA == <<100, 105, 100, 58, 97>>
DidC == <<100, 105, 100, 58, 99>>
Handle == <<98, 111, 98>>
DidPrefix == <<100, 105, 100, 58>>
Atproto == <<97, 116, 112, 114, 111, 116, 111>>

Uri(repo, path) == [repo |-> repo, path |-> path]

Post(type, uri, createdAt) == [type |-> type, uri |-> uri, createdAt |-> createdAt]

\* new Date(s): the instant, or an Invalid Date whose time value is NaN
DateGetTime(s) == IF s >= 0 THEN s ELSE NaN

-----------------------------------------------------------------------------
(* PostStorage *)

HasUriBroken(ps, uri) == FALSE

HasUriLastOnly(ps, uri) == Len(ps) > 0 /\ ps[Len(ps)].uri = uri

\* posts.find(p => p.uri === uri) is truthy
HasUri(ps, uri) == \E i \in 1..Len(ps) : ps[i].uri = uri

\* getPostByUri
GetPostByUri(ps, uri) ==
    IF HasUri(ps, uri)
    THEN ps[CHOOSE i \in 1..Len(ps) : ps[i].uri = uri /\ \A j \in 1..(i-1) : ps[j].uri # uri]
    ELSE Post("undefined", uri, Garbage)

EighteenHoursAgo(t) == t - RetentionHours

\* postDate >= eighteenHoursAgo: a comparison with NaN is false
KeepOnPurge(p, t) ==
    LET d == DateGetTime(p.createdAt)
    IN  d # NaN /\ d >= EighteenHoursAgo(t)

PurgeFilter(ps, t) == SelectSeq(ps, LAMBDA p : KeepOnPurge(p, t))

Calls == 1..NumCalls

\* db.write(): the data is serialised when write() is called; owner 0 is initialize()
WriteReq(owner, data) == [owner |-> owner, data |-> data]

-----------------------------------------------------------------------------
(* Feed pipeline: index.ts, timeline.ts *)

Min(a, b) == IF a <= b THEN a ELSE b
Max(a, b) == IF a >= b THEN a ELSE b

\* x - y on numbers
Minus(x, y) == IF x = NaN \/ y = NaN THEN NaN ELSE x - y

\* Math.min(x, y)
MathMin(x, y) == IF x = NaN \/ y = NaN THEN NaN ELSE Min(x, y)

\* record?.$type === 'coffee.outof.beanPost'
IsCoffeeBeanPost(p) == p.type = CoffeeType

FilterCoffeePosts(ps) == SelectSeq(ps, IsCoffeeBeanPost)

\* (a, b) => new Date(b.createdAt).getTime() - new Date(a.createdAt).getTime()
ByCreatedAtDesc(a, b) == Minus(DateGetTime(b.createdAt), DateGetTime(a.createdAt))

\* Array.prototype.sort reads a comparator result of NaN as +0
SortOrder(v) == IF v = NaN THEN 0 ELSE v

\* the place of x among the already sorted s[1..j]: after every element that
\* does not compare greater than x (a stable insertion)
RECURSIVE InsertAfter(_, _, _)
InsertAfter(s, x, j) ==
    IF j = 0 THEN 0
    ELSE IF SortOrder(ByCreatedAtDesc(s[j], x)) > 0 THEN InsertAfter(s, x, j - 1)
    ELSE j

RECURSIVE SortFirst(_, _)
SortFirst(ps, k) ==
    IF k = 0 THEN <<>>
    ELSE LET s == SortFirst(ps, k - 1)
             j == InsertAfter(s, ps[k], k - 1)
         IN  SubSeq(s, 1, j) \o <<ps[k]>> \o SubSeq(s, j + 1, k - 1)

\* no element compares less than its predecessor: the sort has nothing to move
InOrder(ps) ==
    \A i \in 1..(Len(ps) - 1) : SortOrder(ByCreatedAtDesc(ps[i + 1], ps[i])) >= 0

\* [...posts].sort(comparator): stable, on a copy
SortByCreatedAt(ps) == IF InOrder(ps) THEN ps ELSE SortFirst(ps, Len(ps))

\* posts.slice(0, limit)
Slice(ps, limit) ==
    LET rel == IF limit = NaN THEN 0 ELSE limit
        end == IF rel < 0 THEN Max(Len(ps) + rel, 0) ELSE Min(rel, Len(ps))
    IN  SubSeq(ps, 1, end)

LimitFeedSize(limit, ps) == Slice(ps, limit)

NoReason == [present |-> FALSE, by |-> <<>>]
FollowingReason(did) == [present |-> TRUE, by |-> did]

FormatFeedItems(ps) == [i \in 1..Len(ps) |-> [post |-> ps[i].uri, reason |-> NoReason]]

\* the pipeline filter -> sort -> limit -> format
GenerateCoffeeFeed(allPosts, limit) ==
    FormatFeedItems(LimitFeedSize(limit, SortByCreatedAt(FilterCoffeePosts(allPosts))))

\* a query parameter: null (absent), or a string: empty, decimal digits with an
\* optional sign (n is its value), or text that parseInt cannot read
QAbsent == [kind |-> "null", n |-> 0]
QEmpty == [kind |-> "empty", n |-> 0]
QText == [kind |-> "text", n |-> 0]
QInt(n) == [kind |-> "int", n |-> n]

\* parseInt(url.searchParams.get('limit') || '50')
ParseLimit(q) ==
    IF q.kind \in {"null", "empty"} THEN DefaultLimit
    ELSE IF q.kind = "int" THEN q.n
    ELSE NaN

\* Math.min(parseInt(...), 100)
RequestLimit(q) == MathMin(ParseLimit(q), MaxLimit)

\* feedItems.length > 0 ? feedItems[feedItems.length - 1].post : undefined
NoCursor == [present |-> FALSE, uri |-> Uri(<<>>, 0)]
CursorOf(items) ==
    IF Len(items) > 0 THEN [present |-> TRUE, uri |-> items[Len(items)].post] ELSE NoCursor

\* ((hash << 5) - hash) + char, then hash & hash: the 32-bit two's complement
\* value of 31 * hash + char, computed on 16-bit halves
Hash32Step(hash, char) ==
    LET lo == hash % 65536
        hi == (hash - lo) \div 65536
        x == 31 * lo + char
        m == (31 * hi + (x \div 65536)) % 65536
        hi2 == IF m >= 32768 THEN m - 65536 ELSE m
    IN  hi2 * 65536 + (x % 65536)

RECURSIVE HashFrom(_, _, _)
HashFrom(str, i, hash) ==
    IF i > Len(str) THEN hash
    ELSE HashFrom(str, i + 1, Hash32Step(hash, str[i]))

MinInt32 == -2147483647 - 1

\* simpleHash(str) % 3, where simpleHash returns Math.abs(hash)
SimpleHashMod3(str) ==
    LET h == HashFrom(str, 1, 0)
    IN  IF h = MinInt32 THEN 2
        ELSE IF h < 0 THEN (-h) % 3 ELSE h % 3

StartsWith(str, prefix) ==
    Len(str) >= Len(prefix) /\ SubSeq(str, 1, Len(prefix)) = prefix

\* uri.match(/^at:\/\/(did:[^\/]+)/): the repository part of at://<repo>/<path>
\* when it is "did:" followed by at least one character, else ''
ExtractDidFromUri(uri) ==
    IF StartsWith(uri.repo, DidPrefix) /\ Len(uri.repo) > Len(DidPrefix)
    THEN uri.repo ELSE <<>>

ShouldIncludeFollowReason(userDid, post) ==
    LET authorDid == ExtractDidFromUri(post.uri)
    IN  IF authorDid = userDid THEN FALSE
        ELSE SimpleHashMod3(userDid \o authorDid) = 0

GeneratePersonalizedTimelineLimitFirst(userDid, allPosts, limit) ==
    LET coffeePosts == SortByCreatedAt(Slice(FilterCoffeePosts(allPosts), limit))
    IN  [i \in 1..Len(coffeePosts) |->
            [post |-> coffeePosts[i].uri,
             reason |-> IF ShouldIncludeFollowReason(userDid, coffeePosts[i])
                        THEN FollowingReason(ExtractDidFromUri(coffeePosts[i].uri))
                        ELSE NoReason]]

GeneratePersonalizedTimeline(userDid, allPosts, limit) ==
    LET coffeePosts == Slice(SortByCreatedAt(FilterCoffeePosts(allPosts)), limit)
    IN  [i \in 1..Len(coffeePosts) |->
            [post |-> coffeePosts[i].uri,
             reason |-> IF ShouldIncludeFollowReason(userDid, coffeePosts[i])
                        THEN FollowingReason(ExtractDidFromUri(coffeePosts[i].uri))
                        ELSE NoReason]]

\* Arrays as objects: the items of an array, and whether the array is the one
\* the store holds.  getPosts returns this.db.data.posts itself, not a copy.
GetPosts(ps) == [items |-> ps, live |-> TRUE]

\* posts.filter(...) and posts.slice(...) return a new array
FilterStage(a) == [items |-> FilterCoffeePosts(a.items), live |-> FALSE]
SliceStage(a, limit) == [items |-> Slice(a.items, limit), live |-> FALSE]
\* [...posts].sort(...) sorts a copy
CopySortStage(a) == [items |-> SortByCreatedAt(a.items), live |-> FALSE]
\* posts.sort(...) sorts the array it is called on
SortStage(a) == [items |-> SortByCreatedAt(a.items), live |-> a.live]

\* the arrays generateCoffeeFeed goes through, from the one it is handed
CoffeeFeedStages(allPosts, limit) ==
    LET a0 == GetPosts(allPosts)
        a1 == FilterStage(a0)
        a2 == CopySortStage(a1)
        a3 == SliceStage(a2, limit)
    IN  <<a0, a1, a2, a3>>

TimelineStagesSortFirst(allPosts, limit) ==
    LET a0 == GetPosts(allPosts)
        a1 == SortStage(a0)
        a2 == FilterStage(a1)
        a3 == SliceStage(a2, limit)
    IN  <<a0, a1, a2, a3>>

\* the arrays generatePersonalizedTimeline goes through
TimelineStages(allPosts, limit) ==
    LET a0 == GetPosts(allPosts)
        a1 == FilterStage(a0)
        a2 == SortStage(a1)
        a3 == SliceStage(a2, limit)
    IN  <<a0, a1, a2, a3>>

\* what the store's array holds after the stages: the items of the last stage
\* that is the store's array
LiveItems(stages) ==
    LET k == CHOOSE i \in 1..Len(stages) :
                 stages[i].live /\ \A j \in (i + 1)..Len(stages) : ~stages[j].live
    IN  stages[k].items

-----------------------------------------------------------------------------
(* Bearer-token verifier and the HTTP routes: timeline.ts, index.ts *)

\* a JSON value of a decoded claim: absent, a string or a number
JUndef == [t |-> "undef", s |-> <<>>, n |-> 0]
JStr(s) == [t |-> "str", s |-> s, n |-> 0]
JNum(n) == [t |-> "num", s |-> <<>>, n |-> n]

\* !v
Falsy(v) ==
    \/ v.t = "undef"
    \/ v.t = "str" /\ v.s = <<>>
    \/ v.t = "num" /\ v.n = 0

\* v < t for a number t: a string that is no number converts to NaN
LessThan(v, t) == v.t = "num" /\ v.n < t

\* str.includes(sub)
Includes(str, sub) ==
    \E i \in 0..(Len(str) - Len(sub)) : SubSeq(str, i + 1, i + Len(sub)) = sub

\* the Authorization header: absent, or <scheme><token>; the token is blank
\* after trim(), is rejected by jose.decodeJwt ("malformed"), or decodes to claims
NoClaims == [sub |-> JUndef, aud |-> JUndef, iss |-> JUndef, exp |-> JUndef, scope |-> JUndef]
NoHeader == [present |-> FALSE, scheme |-> "", kind |-> "blank", claims |-> NoClaims]
HeaderOf(scheme, kind, claims) ==
    [present |-> TRUE, scheme |-> scheme, kind |-> kind, claims |-> claims]

Reject(status, error) == [success |-> FALSE, status |-> status, error |-> error, sub |-> <<>>]
Accept(sub) == [success |-> TRUE, status |-> 0, error |-> "", sub |-> sub]

\* decoded.exp && decoded.exp < now
ExpiredCheck(exp, t) == ~Falsy(exp) /\ LessThan(exp, t)

VerifyAuthToken(header, t) ==
    IF ~header.present THEN Reject(401, "Missing Authorization header")
    ELSE IF header.scheme # "Bearer "
    THEN Reject(401, "Invalid authorization scheme. Expected Bearer token")
    ELSE IF header.kind = "blank" THEN Reject(401, "Missing token")
    ELSE IF header.kind = "malformed" THEN Reject(401, "Token verification failed")
    ELSE LET decoded == header.claims
         IN  IF Falsy(decoded.sub) \/ Falsy(decoded.aud) \/ Falsy(decoded.iss)
             THEN Reject(401, "Invalid token claims")
             ELSE IF ExpiredCheck(decoded.exp, t) THEN Reject(401, "Token expired")
             \* startsWith on a value that is no string throws; caught below
             ELSE IF decoded.sub.t # "str" THEN Reject(401, "Token verification failed")
             ELSE IF ~StartsWith(decoded.sub.s, DidPrefix)
             THEN Reject(401, "Invalid DID format in subject")
             ELSE IF Falsy(decoded.scope) THEN Reject(403, "Insufficient scope")
             \* includes on a number throws; caught below
             ELSE IF decoded.scope.t # "str" THEN Reject(401, "Token verification failed")
             ELSE IF ~Includes(decoded.scope.s, Atproto)
             THEN Reject(403, "Insufficient scope")
             ELSE Accept(decoded.sub.s)

NoAuth == Reject(0, "")

Response(route, header, q, auth, status, error, hasFeed, feed, readPosts) ==
    [route |-> route, header |-> header, q |-> q, auth |-> auth, status |-> status,
     error |-> error, hasFeed |-> hasFeed, feed |-> feed,
     cursor |-> CursorOf(feed), readPosts |-> readPosts]

\* GET /xrpc/app.bsky.feed.getFeedSkeleton
FeedSkeletonResponse(q, ps) ==
    Response("public", NoHeader, q, NoAuth, 200, "", TRUE,
             GenerateCoffeeFeed(ps, RequestLimit(q)), TRUE)

TimelineResponseNoAuth(header, q, ps, t) ==
    LET authResult == VerifyAuthToken(header, t)
    IN  Response("timeline", header, q, authResult, 200, "", TRUE,
                 GeneratePersonalizedTimeline(authResult.sub, ps, RequestLimit(q)), TRUE)

\* handleTimelineFeed
TimelineResponse(header, q, ps, t) ==
    LET authResult == VerifyAuthToken(header, t)
    IN  IF ~authResult.success
        THEN Response("timeline", header, q, authResult, authResult.status,
                      authResult.error, FALSE, <<>>, FALSE)
        ELSE Response("timeline", header, q, authResult, 200, "", TRUE,
                      GeneratePersonalizedTimeline(authResult.sub, ps, RequestLimit(q)), TRUE)

-----------------------------------------------------------------------------
(* Firehose ingestion: the record validator and the commit decoder *)

ReconnectDelay == 3000   \* reconnectDelay, in milliseconds

\* a record path <collection>/<rkey>; the empty string when coll is ""
Path(coll, rkey) == [coll |-> coll, rkey |-> rkey]
NoPath == Path("", 0)
\* a path that is a number instead of a string
NumberPath == Path("#number", 1)

\* a string holding a timestamp is denoted by the one-element sequence of the
\* createdAt code that Post and DateGetTime use for it
JDate(d) == JStr(<<d>>)

\* the location value of a payload: absent, a string, or an object (an array
\* is an object without lat and lng) with lat and lng values
LocUndef == [t |-> "undef", lat |-> JUndef, lng |-> JUndef]
LocStr == [t |-> "str", lat |-> JUndef, lng |-> JUndef]
LocObj(lat, lng) == [t |-> "obj", lat |-> lat, lng |-> lng]

\* the record decoded from a block
LexRecord(type, text, createdAt, beanName, origin, roastLevel, brewMethod, rating, location) ==
    [type |-> type, text |-> text, createdAt |-> createdAt, beanName |-> beanName,
     origin |-> origin, roastLevel |-> roastLevel, brewMethod |-> brewMethod,
     rating |-> rating, location |-> location]

\* op.cid.toString(): the string form of block identifier c
CidToString(c) == JStr(<<c>>)

\* typeof v === 'string' ? v : undefined, and the same for 'number'
StringOrUndefined(v) == IF v.t = "str" THEN v ELSE JUndef
NumberOrUndefined(v) == IF v.t = "num" THEN v ELSE JUndef

ValidateLocationPartial(location) ==
    IF location.t # "obj" THEN LocUndef
    ELSE LocObj(StringOrUndefined(location.lat), StringOrUndefined(location.lng))

\* validateLocation
ValidateLocation(location) ==
    IF location.t # "obj" THEN LocUndef
    ELSE IF location.lat.t # "str" \/ location.lng.t # "str" THEN LocUndef
    ELSE LocObj(location.lat, location.lng)

RequiredFieldsTextOnly(record) ==
    /\ record.type = CoffeeType
    /\ ~Falsy(record.text) /\ record.text.t = "str"

\* the checks on $type, text and createdAt that precede the construction
RequiredFields(record) ==
    /\ record.type = CoffeeType
    /\ ~Falsy(record.text) /\ record.text.t = "str"
    /\ ~Falsy(record.createdAt) /\ record.createdAt.t = "str"

\* the createdAt code of a stored createdAt value
CreatedAtCode(v) ==
    IF v.t # "str" THEN NotAString
    ELSE IF v.s = <<>> THEN Garbage ELSE v.s[1]

CoffeeBeanPostKeepAll(uri, cid, record) ==
    [type |-> record.type, uri |-> uri, cid |-> cid,
     createdAt |-> CreatedAtCode(record.createdAt), text |-> record.text,
     beanName |-> record.beanName, origin |-> record.origin,
     roastLevel |-> record.roastLevel, brewMethod |-> record.brewMethod,
     rating |-> record.rating, location |-> ValidateLocation(record.location)]

CoffeeBeanPostNoCid(uri, cid, record) ==
    [type |-> record.type, uri |-> uri, cid |-> JStr(<<>>),
     createdAt |-> CreatedAtCode(record.createdAt), text |-> record.text,
     beanName |-> StringOrUndefined(record.beanName),
     origin |-> StringOrUndefined(record.origin),
     roastLevel |-> StringOrUndefined(record.roastLevel),
     brewMethod |-> StringOrUndefined(record.brewMethod),
     rating |-> NumberOrUndefined(record.rating),
     location |-> ValidateLocation(record.location)]

\* const coffeePost: CoffeeBeanPost = { ... }
CoffeeBeanPost(uri, cid, record) ==
    [type |-> record.type, uri |-> uri, cid |-> cid,
     createdAt |-> CreatedAtCode(record.createdAt), text |-> record.text,
     beanName |-> StringOrUndefined(record.beanName),
     origin |-> StringOrUndefined(record.origin),
     roastLevel |-> StringOrUndefined(record.roastLevel),
     brewMethod |-> StringOrUndefined(record.brewMethod),
     rating |-> NumberOrUndefined(record.rating),
     location |-> ValidateLocation(record.location)]

\* a block of commit.blocks: not in the CAR, bytes that are no record, or a record
NoRecord ==
    LexRecord("undefined", JUndef, JUndef, JUndef, JUndef, JUndef, JUndef, JUndef, LocUndef)
BlockMissing == [kind |-> "missing", record |-> NoRecord]
BlockUndecodable == [kind |-> "undecodable", record |-> NoRecord]
BlockOf(record) == [kind |-> "record", record |-> record]

\* an operation of a commit; cid 0 is an absent block identifier
Op(action, path, cid, block) == [action |-> action, path |-> path, cid |-> cid, block |-> block]

\* an inbound frame: bytes that are no CAR file, a CAR whose root is another
\* event, or a commit; blocks is "absent", "corrupt" or "car"
NoCommit(kind) == [kind |-> kind, repo |-> <<>>, hasOps |-> FALSE, ops |-> <<>>, blocks |-> "absent"]
Commit(repo, ops, blocks) ==
    [kind |-> "commit", repo |-> repo, hasOps |-> TRUE, ops |-> ops, blocks |-> blocks]
CommitWithoutOps(repo) ==
    [kind |-> "commit", repo |-> repo, hasOps |-> FALSE, ops |-> <<>>, blocks |-> "car"]

\* decodeMessage: the commit record, or null
DecodeMessage(frame) == IF frame.kind = "commit" THEN frame ELSE NoCommit("null")

\* the loop of handleCommit from operation k on: the index of the first
\* operation whose processCoffeePost reaches its await readCar, or 0 when the
\* loop ends (a path that is no string makes includes throw, which ends it)
RECURSIVE HandleCommit(_, _)
HandleCommit(commit, k) ==
    IF ~commit.hasOps \/ k > Len(commit.ops) THEN 0
    ELSE LET op == commit.ops[k]
         IN  IF op.action = "create" /\ op.path # NoPath
             THEN IF op.path = NumberPath THEN 0
                  ELSE IF op.path.coll = CoffeeType /\ op.cid # 0 /\ commit.blocks # "absent"
                  THEN k
                  ELSE HandleCommit(commit, k + 1)
             ELSE HandleCommit(commit, k + 1)

ProcessCoffeePostStoresUnchecked(commit, op) ==
    /\ commit.blocks = "car"
    /\ op.block.kind = "record"

\* processCoffeePost after readCar: TRUE when it reaches storage.addPost
ProcessCoffeePostStores(commit, op) ==
    /\ commit.blocks = "car"
    /\ op.block.kind = "record"
    /\ RequiredFields(op.block.record)

\* the record processCoffeePost hands to storage.addPost
ProcessCoffeePostRecord(commit, op) ==
    CoffeeBeanPost(Uri(commit.repo, op.path), CidToString(op.cid), op.block.record)

\* an event of the @atproto/sync firehose; cid 0 is an absent cid
Evt(event, collection, uri, cid, record) ==
    [event |-> event, collection |-> collection, uri |-> uri, cid |-> cid, record |-> record]

NoRecordEvt == Evt("none", "", Uri(<<>>, NoPath), 0, NoRecord)
NoEvt == [evt |-> NoRecordEvt, call |-> 0]

\* handleEvent and handleCoffeePost up to storage.addPost
HandleCoffeePostStores(evt) ==
    /\ evt.event \in {"create", "update"}
    /\ evt.collection = CoffeeType
    /\ RequiredFields(evt.record)

\* evt.cid?.toString() || ''
HandleCoffeePostRecord(evt) ==
    CoffeeBeanPost(evt.uri, IF evt.cid = 0 THEN JStr(<<>>) ELSE CidToString(evt.cid), evt.record)

\* the handler of one inbound frame: the socket it arrived on, its position,
\* the operation being processed and the addPost call it awaits
Handler(sock, frame, pc, opi, call) ==
    [sock |-> sock, frame |-> frame, pc |-> pc, opi |-> opi, call |-> call]

Socks == 1..MaxSockets

\* new FirehoseClient(storage, lexicons)
FirehoseConstructed ==
    /\ life = "constructed"
    /\ ws = 0
    /\ socks = [s \in Socks |-> "unused"]
    /\ timers = <<>>
    /\ frames = <<>>
    /\ sync = NoEvt

-----------------------------------------------------------------------------
(* Inputs of the store specification *)

Nows == {20, 21}
CreatedAts == {1, 2, 3, Garbage}
IngestCreatedAts == {3, Garbage}
StoreUris == {Uri(DidA, 1), Uri(DidC, 1), Uri(DidA, 2)}

SeqsUpTo(S, n) == UNION {[1..k -> S] : k \in 0..n}

DistinctUris(ps) == \A i, j \in 1..Len(ps) : ps[i].uri = ps[j].uri => i = j

DiskPosts == {Post(CoffeeType, u, t) : u \in StoreUris, t \in CreatedAts}
DiskStores == {s \in SeqsUpTo(DiskPosts, MaxDisk) : DistinctUris(s)}
IngestPosts == {Post(CoffeeType, u, t) : u \in StoreUris, t \in IngestCreatedAts}

NoPost == Post("undefined", Uri(<<>>, 0), Garbage)
NoHttp == [route |-> "none"]

-----------------------------------------------------------------------------
(* Startup and ingestion *)

Init ==
    /\ phase = "constructed"
    /\ now \in Nows
    /\ posts = <<>>
    /\ disk \in DiskStores
    /\ wq = <<>>
    /\ hpc = [c \in Calls |-> "idle"]
    /\ harg = [c \in Calls |-> NoPost]
    /\ hres = [c \in Calls |-> "none"]
    /\ http = NoHttp
    /\ FirehoseConstructed

\* initialize(): await this.db.read()
InitializeRead ==
    /\ phase = "constructed"
    /\ phase' = "loaded"
    /\ posts' = disk
    /\ UNCHANGED <<now, disk, wq, hpc, harg, hres, http>>

\* purgeOldPosts(), up to its await
PurgeOldPosts ==
    /\ phase = "loaded"
    /\ posts' = PurgeFilter(posts, now)
    /\ IF Len(posts) - Len(posts') > 0
       THEN /\ wq' = Append(wq, WriteReq(0, posts'))
            /\ phase' = "purging"
       ELSE /\ wq' = wq
            /\ phase' = "running"
    /\ UNCHANGED <<now, disk, hpc, harg, hres, http>>

AddPostReplaces(c, post) ==
    /\ phase = "running"
    /\ hpc[c] = "idle"
    /\ harg' = [harg EXCEPT ![c] = post]
    /\ posts' = IF HasUri(posts, post.uri)
                THEN [i \in 1..Len(posts) |-> IF posts[i].uri = post.uri THEN post ELSE posts[i]]
                ELSE Append(posts, post)
    /\ wq' = Append(wq, WriteReq(c, posts'))
    /\ hpc' = [hpc EXCEPT ![c] = "writing"]
    /\ hres' = hres
    /\ UNCHANGED <<phase, now, disk, http>>

\* addPost(post), up to its return false or its await
AddPost(c, post) ==
    /\ phase = "running"
    /\ hpc[c] = "idle"
    /\ harg' = [harg EXCEPT ![c] = post]
    /\ IF HasUri(posts, post.uri)
       THEN /\ hpc' = [hpc EXCEPT ![c] = "done"]
            /\ hres' = [hres EXCEPT ![c] = "false"]
            /\ UNCHANGED <<posts, wq>>
       ELSE /\ posts' = Append(posts, post)
            /\ wq' = Append(wq, WriteReq(c, posts'))
            /\ hpc' = [hpc EXCEPT ![c] = "writing"]
            /\ hres' = hres
    /\ UNCHANGED <<phase, now, disk, http>>

\* the oldest pending write reaches the file; its caller resumes after the await
WriteDone ==
    /\ wq # <<>>
    /\ disk' = Head(wq).data
    /\ wq' = Tail(wq)
    /\ IF Head(wq).owner = 0
       THEN /\ phase' = "running"
            /\ UNCHANGED <<hpc, hres>>
       ELSE /\ hpc' = [hpc EXCEPT ![Head(wq).owner] = "done"]
            /\ hres' = [hres EXCEPT ![Head(wq).owner] = "true"]
            /\ phase' = phase
    /\ UNCHANGED <<now, posts, harg, http>>

\* the oldest pending write fails; the await throws in its caller
WriteFail ==
    /\ wq # <<>>
    /\ wq' = Tail(wq)
    /\ IF Head(wq).owner = 0
       THEN /\ phase' = "failed"
            /\ UNCHANGED <<hpc, hres>>
       ELSE /\ hpc' = [hpc EXCEPT ![Head(wq).owner] = "done"]
            /\ hres' = [hres EXCEPT ![Head(wq).owner] = "error"]
            /\ phase' = phase
    /\ UNCHANGED <<now, posts, disk, harg, http>>

Next ==
    \/ InitializeRead /\ UNCHANGED fhvars
    \/ PurgeOldPosts /\ UNCHANGED fhvars
    \/ \E c \in Calls, post \in IngestPosts : AddPost(c, post) /\ UNCHANGED fhvars
    \/ WriteDone /\ UNCHANGED fhvars
    \/ WriteFail /\ UNCHANGED fhvars

Spec == Init /\ [][Next]_vars

-----------------------------------------------------------------------------
(* The ws firehose client: connection life cycle and message handlers *)

\* WebSocket objects that are neither alive nor the socket of a recorded frame
FreeSocks ==
    {s \in Socks : /\ socks[s] \in {"unused", "closed"}
                   /\ \A h \in 1..Len(frames) : frames[h].sock # s}

\* connect(), run with the timers in pending: new WebSocket(url) either
\* returns a socket that is connecting, or throws and the catch re-arms
Connect(ok, pending) ==
    IF ok
    THEN /\ FreeSocks # {}
         /\ LET s == CHOOSE x \in FreeSocks : \A y \in FreeSocks : x <= y
            IN  /\ socks' = [socks EXCEPT ![s] = "connecting"]
                /\ ws' = s
         /\ timers' = pending
    ELSE /\ timers' = Append(pending, ReconnectDelay)
         /\ UNCHANGED <<ws, socks>>

\* start()
Start ==
    /\ phase = "running"
    /\ life = "constructed"
    /\ life' = "started"
    /\ \E ok \in BOOLEAN : Connect(ok, timers)
    /\ UNCHANGED <<storevars, http, frames, sync>>

\* the reconnect timer fires: () => this.connect()
TimerFires ==
    /\ timers # <<>>
    /\ \E ok \in BOOLEAN : Connect(ok, Tail(timers))
    /\ UNCHANGED <<storevars, http, life, frames, sync>>

\* 'open'
SocketOpen(s) ==
    /\ socks[s] = "connecting"
    /\ socks' = [socks EXCEPT ![s] = "open"]
    /\ UNCHANGED <<storevars, http, life, ws, timers, frames, sync>>

SocketErrorArmsTimer(s) ==
    /\ socks[s] \in {"connecting", "open"}
    /\ socks' = [socks EXCEPT ![s] = "failed"]
    /\ timers' = Append(timers, ReconnectDelay)
    /\ UNCHANGED <<storevars, http, life, ws, frames, sync>>

\* 'error': the handler only logs; the socket then emits 'close'
SocketError(s) ==
    /\ socks[s] \in {"connecting", "open"}
    /\ socks' = [socks EXCEPT ![s] = "failed"]
    /\ UNCHANGED <<storevars, http, life, ws, timers, frames, sync>>

SocketCloseNoTimer(s) ==
    /\ socks[s] \in {"open", "failed", "closing"}
    /\ socks' = [socks EXCEPT ![s] = "closed"]
    /\ UNCHANGED <<storevars, http, life, ws, timers, frames, sync>>

\* 'close': the handler arms the reconnect timer
SocketClose(s) ==
    /\ socks[s] \in {"open", "failed", "closing"}
    /\ socks' = [socks EXCEPT ![s] = "closed"]
    /\ timers' = Append(timers, ReconnectDelay)
    /\ UNCHANGED <<storevars, http, life, ws, frames, sync>>

\* stop(): this.ws.close() starts the closing handshake of an open socket and
\* aborts a connecting one; it does nothing to a socket already closed
Stop ==
    /\ life = "started"
    /\ life' = "stopped"
    /\ IF ws # 0
       THEN /\ socks' = [socks EXCEPT ![ws] =
                           IF @ = "open" THEN "closing"
                           ELSE IF @ = "connecting" THEN "failed" ELSE @]
            /\ ws' = 0
       ELSE UNCHANGED <<ws, socks>>
    /\ UNCHANGED <<storevars, http, timers, frames, sync>>

\* addPost calls the frames received so far may make
CallsOf(fs) ==
    LET RECURSIVE Sum(_)
        Sum(k) == IF k = 0 THEN 0 ELSE Len(fs[k].frame.ops) + Sum(k - 1)
    IN  Sum(Len(fs))

IdleCall == CHOOSE c \in Calls : hpc[c] = "idle" /\ \A d \in Calls : hpc[d] = "idle" => c <= d

\* 'message': the async handler starts and runs to await readCar(buffer)
MessageEvent(s, frame) ==
    /\ socks[s] = "open"
    /\ Len(frames) < MaxFrames
    /\ CallsOf(frames) + Len(frame.ops) <= NumCalls
    /\ frames' = Append(frames, Handler(s, frame, "decode", 0, 0))
    /\ UNCHANGED <<storevars, http, life, ws, socks, timers, sync>>

\* where handler h stands after the loop of handleCommit went on from operation k
Continue(h, k) ==
    frames' = [frames EXCEPT ![h] =
                  [@ EXCEPT !.pc = IF k = 0 THEN "done" ELSE "readCar", !.opi = k, !.call = 0]]

\* handleMessage after decodeMessage: handleCommit up to the first await
HandleMessage(h) ==
    /\ h \in 1..Len(frames)
    /\ frames[h].pc = "decode"
    /\ LET decoded == DecodeMessage(frames[h].frame)
       IN  Continue(h, IF decoded.kind = "commit" THEN HandleCommit(decoded, 1) ELSE 0)
    /\ UNCHANGED <<storevars, http, life, ws, socks, timers, sync>>

\* processCoffeePost after await readCar(commit.blocks): validation, then
\* storage.addPost up to its return false or its await
ProcessCoffeePost(h) ==
    /\ h \in 1..Len(frames)
    /\ frames[h].pc = "readCar"
    /\ LET commit == frames[h].frame
           op == commit.ops[frames[h].opi]
       IN  IF ProcessCoffeePostStores(commit, op)
           THEN /\ \E c \in Calls : hpc[c] = "idle"
                /\ AddPost(IdleCall, ProcessCoffeePostRecord(commit, op))
                /\ frames' = [frames EXCEPT ![h] = [@ EXCEPT !.pc = "addPost", !.call = IdleCall]]
           ELSE /\ Continue(h, HandleCommit(commit, frames[h].opi + 1))
                /\ UNCHANGED <<storevars, http>>
    /\ UNCHANGED <<life, ws, socks, timers, sync>>

\* processCoffeePost after await this.storage.addPost(coffeePost): a rejection
\* is caught and logged; handleCommit goes on with the next operation
AddPostReturns(h) ==
    /\ h \in 1..Len(frames)
    /\ frames[h].pc = "addPost"
    /\ hpc[frames[h].call] = "done"
    /\ Continue(h, HandleCommit(frames[h].frame, frames[h].opi + 1))
    /\ UNCHANGED <<storevars, http, life, ws, socks, timers, sync>>

\* handleEvent of the @atproto/sync client, up to the await in addPost
HandleEvent(evt) ==
    /\ phase = "running"
    /\ IF HandleCoffeePostStores(evt)
       THEN /\ \E c \in Calls : hpc[c] = "idle"
            /\ AddPost(IdleCall, HandleCoffeePostRecord(evt))
            /\ sync' = [evt |-> evt, call |-> IdleCall]
       ELSE /\ sync' = [evt |-> evt, call |-> 0]
            /\ UNCHANGED <<storevars, http>>
    /\ UNCHANGED <<life, ws, socks, timers, frames>>

-----------------------------------------------------------------------------
(* Serving feeds from a store snapshot *)

LimitInts == {-1, 0, 2, MaxLimit, MaxLimit + 1}
LimitParams == {QAbsent, QEmpty, QText} \cup {QInt(n) : n \in LimitInts}

FeedCreatedAts == {1, 2, Garbage}
RepoAt(i) == IF i % 2 = 1 THEN DidA ELSE DidC

\* snapshots of up to MaxFeedStore records; the i-th record has the i-th uri
SmallStores ==
    UNION {
        {[i \in 1..k |-> Post(f[i][1], Uri(RepoAt(i), i), f[i][2])] :
            f \in [1..k -> {CoffeeType, OtherType} \X FeedCreatedAts]}
        : k \in 0..MaxFeedStore}

\* snapshots of more than MaxLimit coffee posts
\* (newest first, as the sort leaves them)
BigStore(n) == [i \in 1..n |-> Post(CoffeeType, Uri(RepoAt(i), i), IF i = 1 THEN 2 ELSE 1)]
BigStores == {BigStore(MaxLimit + k) : k \in 1..BigStoreExtra}

\* snapshots with records of the repository "did:" (sub claims are only
\* required to start with "did:")
OwnStores ==
    {<<Post(CoffeeType, Uri(DidPrefix, 1), 1)>>,
     <<Post(CoffeeType, Uri(DidA, 1), 2), Post(CoffeeType, Uri(DidPrefix, 2), 1)>>}

FeedStores == SmallStores \cup BigStores \cup OwnStores

AuthNows == {100}
GoodClaims(sub, scope) ==
    [sub |-> JStr(sub), aud |-> JStr(Handle), iss |-> JStr(Handle), exp |-> JUndef,
     scope |-> JStr(scope)]
FeedHeaders ==
    {NoHeader,
     HeaderOf("Bearer ", "jwt", GoodClaims(DidA, Atproto)),
     HeaderOf("Bearer ", "jwt", GoodClaims(DidC, Atproto)),
     HeaderOf("Bearer ", "jwt", GoodClaims(DidPrefix, Atproto))}

SubValues == {JUndef, JStr(<<>>), JStr(DidA), JStr(Handle)}
AudValues == {JUndef, JStr(Handle)}
ExpValues == {JUndef, JNum(0), JNum(99), JNum(100), JNum(101)}
ScopeValues ==
    {JUndef, JStr(<<>>), JStr(Atproto), JStr(Handle \o Atproto \o Handle), JStr(Handle)}
AllClaims ==
    [sub : SubValues, aud : AudValues, iss : AudValues, exp : ExpValues, scope : ScopeValues]
Headers ==
    {NoHeader, HeaderOf("Basic ", "jwt", GoodClaims(DidA, Atproto)),
     HeaderOf("Bearer ", "blank", NoClaims), HeaderOf("Bearer ", "malformed", NoClaims)}
    \cup {HeaderOf("Bearer ", "jwt", c) : c \in AllClaims}

\* tokens whose subject or scope claim is a number instead of a string
MistypedClaims ==
    [sub : {JNum(5)}, aud : {JStr(Handle)}, iss : {JStr(Handle)}, exp : ExpValues,
     scope : ScopeValues]
    \cup [sub : {JStr(DidA)}, aud : {JStr(Handle)}, iss : {JStr(Handle)}, exp : ExpValues,
          scope : {JNum(5)}]
MistypedHeaders == {HeaderOf("Bearer ", "jwt", c) : c \in MistypedClaims}

AuthStores == {<<>>, BigStore(2)}
AuthLimitParams == {QAbsent}

Serving(stores) ==
    /\ phase = "running"
    /\ now \in AuthNows
    /\ posts \in stores
    /\ disk = posts
    /\ wq = <<>>
    /\ hpc = [c \in Calls |-> "idle"]
    /\ harg = [c \in Calls |-> NoPost]
    /\ hres = [c \in Calls |-> "none"]
    /\ http = NoHttp
    /\ FirehoseConstructed

GetFeedSkeleton(q) ==
    /\ phase = "running"
    /\ http' = FeedSkeletonResponse(q, posts)
    /\ posts' = LiveItems(CoffeeFeedStages(posts, RequestLimit(q)))
    /\ UNCHANGED <<phase, now, disk, wq, hpc, harg, hres>>

HandleTimelineFeed(header, q) ==
    /\ phase = "running"
    /\ http' = TimelineResponse(header, q, posts, now)
    /\ posts' = IF VerifyAuthToken(header, now).success
                THEN LiveItems(TimelineStages(posts, RequestLimit(q)))
                ELSE posts
    /\ UNCHANGED <<phase, now, disk, wq, hpc, harg, hres>>

InitFeed == Serving(FeedStores)

NextFeed ==
    \/ \E q \in LimitParams : GetFeedSkeleton(q) /\ UNCHANGED fhvars
    \/ \E h \in FeedHeaders, q \in LimitParams : HandleTimelineFeed(h, q) /\ UNCHANGED fhvars

SpecFeed == InitFeed /\ [][NextFeed]_vars

InitAuth == Serving(AuthStores)

NextAuth ==
    \/ \E h \in Headers, q \in AuthLimitParams : HandleTimelineFeed(h, q) /\ UNCHANGED fhvars
    \/ \E h \in MistypedHeaders, q \in AuthLimitParams :
          HandleTimelineFeed(h, q) /\ UNCHANGED fhvars

SpecAuth == InitAuth /\ [][NextAuth]_vars

-----------------------------------------------------------------------------
(* Ingestion from the network *)

TextA == <<97>>
TextB == <<98>>
CoffeePath(rkey) == Path(CoffeeType, rkey)

\* a payload with the discriminator and the two required fields only
MinimalRecord(text, createdAt) ==
    LexRecord(CoffeeType, JStr(text), JDate(createdAt),
              JUndef, JUndef, JUndef, JUndef, JUndef, LocUndef)

CreateOp(rkey, cid, text) == Op("create", CoffeePath(rkey), cid, BlockOf(MinimalRecord(text, 3)))

\* two commits that create the same path with different payloads, and a
\* commit of another repository with two creates
IngestFrames ==
    {Commit(DidA, <<CreateOp(1, 7, TextA)>>, "car"),
     Commit(DidA, <<CreateOp(1, 8, TextB)>>, "car"),
     Commit(DidC, <<CreateOp(1, 5, TextA), CreateOp(2, 6, TextB)>>, "car")}

Running ==
    /\ phase = "running"
    /\ now \in AuthNows
    /\ posts = <<>>
    /\ disk = <<>>
    /\ wq = <<>>
    /\ hpc = [c \in Calls |-> "idle"]
    /\ harg = [c \in Calls |-> NoPost]
    /\ hres = [c \in Calls |-> "none"]
    /\ http = NoHttp

\* the store is running, start() was called and its connection is open
InitIngest ==
    /\ Running
    /\ life = "started"
    /\ ws = 1
    /\ socks = [s \in Socks |-> IF s = 1 THEN "open" ELSE "unused"]
    /\ timers = <<>>
    /\ frames = <<>>
    /\ sync = NoEvt

Handlers == 1..MaxFrames

\* frames arriving on the open connection while earlier handlers and durable
\* writes are still under way
NextIngest ==
    \/ \E s \in Socks, f \in IngestFrames : MessageEvent(s, f)
    \/ \E h \in Handlers : HandleMessage(h)
    \/ \E h \in Handlers : ProcessCoffeePost(h)
    \/ \E h \in Handlers : AddPostReturns(h)
    \/ WriteDone /\ UNCHANGED fhvars
    \/ WriteFail /\ UNCHANGED fhvars

SpecIngest == InitIngest /\ [][NextIngest]_vars

-----------------------------------------------------------------------------
(* The connection life cycle *)

InitConnect == Running /\ FirehoseConstructed

\* start(), stop(), the socket's events and the reconnect timer, with one
\* frame handled along the way
NextConnect ==
    \/ Start
    \/ TimerFires
    \/ \E s \in Socks : SocketOpen(s)
    \/ \E s \in Socks : SocketError(s)
    \/ \E s \in Socks : SocketClose(s)
    \/ Stop
    \/ /\ frames = <<>>
       /\ \E s \in Socks, f \in IngestFrames : MessageEvent(s, f)
    \/ \E h \in Handlers : HandleMessage(h)
    \/ \E h \in Handlers : ProcessCoffeePost(h)
    \/ \E h \in Handlers : AddPostReturns(h)
    \/ WriteDone /\ UNCHANGED fhvars
    \/ WriteFail /\ UNCHANGED fhvars

SpecConnect == InitConnect /\ [][NextConnect]_vars

\* a pending timer fires after its delay, and a socket that emitted 'error' or
\* was closed emits 'close'
CloseFollows == \E s \in Socks : socks[s] \in {"failed", "closing"} /\ SocketClose(s)

SpecConnectLive == SpecConnect /\ WF_vars(TimerFires) /\ WF_vars(CloseFollows)

-----------------------------------------------------------------------------
(* Validation of decoded payloads *)

Lat == <<49>>
Lng == <<50>>

TextValues == {JUndef, JStr(<<>>), JStr(TextA), JNum(5)}
CreatedAtValues == {JUndef, JStr(<<>>), JDate(3), JDate(Garbage), JNum(5)}
BeanNameValues == {JUndef, JStr(<<>>), JStr(TextA), JNum(5)}
StringValues == {JUndef, JStr(TextB), JNum(5)}
RatingValues == {JUndef, JNum(0), JNum(4), JStr(TextA)}
LocationValues ==
    {LocUndef, LocStr, LocObj(JUndef, JUndef), LocObj(JStr(Lat), JUndef),
     LocObj(JUndef, JStr(Lng)), LocObj(JStr(Lat), JStr(Lng)), LocObj(JNum(1), JStr(Lng)),
     LocObj(JStr(Lat), JNum(2))}

\* the optional fields all absent, all well-typed, all mistyped
OptionalProfiles ==
    {<<JUndef, JUndef, LocUndef>>, <<JStr(TextB), JNum(4), LocObj(JStr(Lat), JStr(Lng))>>,
     <<JNum(5), JStr(TextA), LocStr>>}

\* every combination of the discriminator and the required fields
RequiredRecords ==
    {LexRecord(type, text, createdAt, o[1], o[1], o[1], o[1], o[2], o[3]) :
        type \in {CoffeeType, OtherType}, text \in TextValues,
        createdAt \in CreatedAtValues, o \in OptionalProfiles}

\* every combination of the optional fields on a payload that passes the
\* required-field checks
OptionalRecords ==
    {LexRecord(CoffeeType, JStr(TextA), JDate(3), o[1], o[2], o[3], o[4], o[5], o[6]) :
        o \in BeanNameValues \X StringValues \X StringValues \X StringValues
                \X RatingValues \X LocationValues}

CreateOf(block) == Commit(DidA, <<Op("create", CoffeePath(1), 7, block)>>, "car")

PayloadFrames == {CreateOf(BlockOf(r)) : r \in RequiredRecords \cup OptionalRecords}

\* frames that carry no create operation with a decodable coffee payload
IrrelevantFrames ==
    {NoCommit("garbage"), NoCommit("other"), CommitWithoutOps(DidA),
     Commit(DidA, <<>>, "car"),
     Commit(DidA, <<Op("delete", CoffeePath(1), 0, BlockMissing)>>, "car"),
     Commit(DidA, <<Op("update", CoffeePath(1), 7, BlockOf(MinimalRecord(TextA, 3)))>>, "car"),
     Commit(DidA, <<Op("create", Path(OtherType, 1), 7, BlockOf(MinimalRecord(TextA, 3)))>>, "car"),
     Commit(DidA, <<Op("create", NoPath, 7, BlockOf(MinimalRecord(TextA, 3)))>>, "car"),
     Commit(DidA, <<Op("create", NumberPath, 7, BlockOf(MinimalRecord(TextA, 3)))>>, "car"),
     Commit(DidA, <<Op("create", CoffeePath(1), 0, BlockOf(MinimalRecord(TextA, 3)))>>, "car"),
     Commit(DidA, <<CreateOp(1, 7, TextA)>>, "absent"),
     Commit(DidA, <<CreateOp(1, 7, TextA)>>, "corrupt"),
     CreateOf(BlockMissing), CreateOf(BlockUndecodable)}

ValidateFrames == PayloadFrames \cup IrrelevantFrames

\* the frame that follows on the same connection
FollowFrames == {Commit(DidC, <<CreateOp(2, 9, TextB)>>, "car")}

ValidateEvents ==
    {Evt(event, collection, Uri(DidA, CoffeePath(3)), cid, r) :
        event \in {"create", "update", "delete"}, collection \in {CoffeeType, OtherType},
        cid \in {0, 7}, r \in RequiredRecords}

InitValidate == InitIngest

NextValidate ==
    \/ /\ frames = <<>> /\ sync = NoEvt
       /\ \E s \in Socks, f \in ValidateFrames : MessageEvent(s, f)
    \/ /\ frames # <<>> /\ frames[1].frame \in IrrelevantFrames
       /\ \E s \in Socks, f \in FollowFrames : MessageEvent(s, f)
    \/ \E h \in Handlers : HandleMessage(h)
    \/ \E h \in Handlers : ProcessCoffeePost(h)
    \/ \E h \in Handlers : AddPostReturns(h)
    \/ /\ frames = <<>> /\ sync = NoEvt
       /\ \E evt \in ValidateEvents : HandleEvent(evt)
    \/ WriteDone /\ UNCHANGED fhvars
    \/ WriteFail /\ UNCHANGED fhvars

SpecValidate == InitValidate /\ [][NextValidate]_vars

-----------------------------------------------------------------------------
(* Feed requests while frames are ingested *)

\* the store after startup: a record of another type, a coffee post that a
\* later commit creates again, and the newest coffee post last
ServeStore ==
    <<Post(OtherType, Uri(DidA, CoffeePath(5)), 1),
      Post(CoffeeType, Uri(DidC, CoffeePath(1)), 1),
      Post(CoffeeType, Uri(DidA, CoffeePath(9)), 4)>>

ServeLimitParams == {QAbsent, QInt(1)}
ServeHeaders == {NoHeader, HeaderOf("Bearer ", "jwt", GoodClaims(DidC, Atproto))}

\* main() after storage.initialize(), firehose.start() and server.listen()
InitServe ==
    /\ phase = "running"
    /\ now \in AuthNows
    /\ posts = ServeStore
    /\ disk = posts
    /\ wq = <<>>
    /\ hpc = [c \in Calls |-> "idle"]
    /\ harg = [c \in Calls |-> NoPost]
    /\ hres = [c \in Calls |-> "none"]
    /\ http = NoHttp
    /\ life = "started"
    /\ ws = 1
    /\ socks = [s \in Socks |-> IF s = 1 THEN "open" ELSE "unused"]
    /\ timers = <<>>
    /\ frames = <<>>
    /\ sync = NoEvt

NextServe ==
    \/ \E s \in Socks, f \in IngestFrames : MessageEvent(s, f)
    \/ \E h \in Handlers : HandleMessage(h)
    \/ \E h \in Handlers : ProcessCoffeePost(h)
    \/ \E h \in Handlers : AddPostReturns(h)
    \/ WriteDone /\ UNCHANGED fhvars
    \/ WriteFail /\ UNCHANGED fhvars
    \/ \E q \in ServeLimitParams : GetFeedSkeleton(q) /\ UNCHANGED fhvars
    \/ \E h \in ServeHeaders, q \in ServeLimitParams :
          HandleTimelineFeed(h, q) /\ UNCHANGED fhvars

SpecServe == InitServe /\ [][NextServe]_vars

-----------------------------------------------------------------------------
(* Events of the @atproto/sync client on a store that holds records *)

StoredUri == Uri(DidC, CoffeePath(1))
NewUri == Uri(DidA, CoffeePath(3))

\* create, update and delete events for a uri the store holds and for one it
\* does not hold, the latter with two different payloads
SyncEvents ==
    {Evt(event, CoffeeType, StoredUri, 7, MinimalRecord(TextB, 3)) :
        event \in {"create", "update", "delete"}}
    \cup {Evt(event, CoffeeType, NewUri, 7, MinimalRecord(text, 3)) :
            event \in {"create", "update", "delete"}, text \in {TextA, TextB}}

InitSync == Serving({ServeStore})

NextSync ==
    \/ \E evt \in SyncEvents : HandleEvent(evt)
    \/ WriteDone /\ UNCHANGED fhvars
    \/ WriteFail /\ UNCHANGED fhvars

SpecSync == InitSync /\ [][NextSync]_vars

-----------------------------------------------------------------------------
(* Claims about the store *)

UriAt(ps, uri) == {i \in 1..Len(ps) : ps[i].uri = uri}

CallStarts(c) == hpc[c] = "idle" /\ hpc'[c] # "idle"

\* C1: an addPost call for a uri already in the store returns false and leaves
\* the record list, the pending writes and the file untouched; a call for a new
\* uri appends exactly that record at the end, issues exactly one durable write
\* of the new list, and returns true when that write completes.
C1_AddPostContract ==
    [][ /\ \A c \in Calls : CallStarts(c) =>
              IF UriAt(posts, harg'[c].uri) # {}
              THEN /\ posts' = posts /\ wq' = wq /\ disk' = disk
                   /\ hpc'[c] = "done" /\ hres'[c] = "false"
              ELSE /\ posts' = posts \o <<harg'[c]>>
                   /\ wq' = wq \o <<[owner |-> c, data |-> posts']>>
                   /\ hpc'[c] = "writing" /\ hres'[c] = "none"
        /\ \A c \in Calls : (hpc[c] = "writing" /\ hpc'[c] # "writing") =>
              /\ hpc'[c] = "done"
              /\ Len(wq') = Len(wq) - 1
              /\ \A k \in 1..Len(wq') : wq'[k].owner # c
              /\ hres'[c] \in {"true", "error"}
              /\ (disk' = Head(wq).data /\ disk' # disk) => hres'[c] = "true"
              /\ hres'[c] = "true" => disk' = Head(wq).data
              /\ posts' = posts
        /\ \A c \in Calls : hpc[c] = "done" => (hpc'[c] = "done" /\ hres'[c] = hres[c])
      ]_vars

\* a duplicate call has returned false while another call's record was stored
\* and written
C1_Witness ==
    \E c, d \in Calls :
        /\ hres[c] = "true" /\ hres[d] = "false"
        /\ harg[c].uri = harg[d].uri /\ harg[c] # harg[d]
        /\ harg[c] \in {posts[i] : i \in 1..Len(posts)}
        /\ harg[d] \notin {posts[i] : i \in 1..Len(posts)}

Appenders == {c \in Calls : hpc[c] = "writing" \/ hres[c] \in {"true", "error"}}

\* C2: in every state reached by interleaved addPost calls no two records of
\* the store share a uri; at most one of the calls for a uri returns true, and
\* once all calls made for a uri that was not in the store at startup have
\* returned (none rejected by a failed write), exactly one returned true.
C2_UriUnique ==
    /\ \A i, j \in 1..Len(posts) : posts[i].uri = posts[j].uri => i = j
    /\ \A u \in StoreUris :
          LET started == {c \in Calls : hpc[c] # "idle" /\ harg[c].uri = u}
              trues == {c \in started : hres[c] = "true"}
              atStartup == \E i \in 1..(Len(posts) - Cardinality(Appenders)) : posts[i].uri = u
          IN  /\ Cardinality(trues) <= 1
              /\ started # {} => UriAt(posts, u) # {}
              /\ ( /\ started # {}
                   /\ \A c \in started : hres[c] \in {"true", "false"}
                   /\ ~atStartup ) => Cardinality(trues) = 1

\* one call is suspended at its durable write while a later call for the same
\* uri has already run and returned false
C2_Witness ==
    \E c, d \in Calls :
        /\ c # d /\ harg[c].uri = harg[d].uri
        /\ hpc[c] = "writing" /\ hres[d] = "false"

PurgeStep == phase = "loaded" /\ phase' # "loaded"

\* C3: the eviction sweep retains every record whose createdAt cannot be
\* parsed as a timestamp.
C3_UnparsableRetained ==
    [][ PurgeStep =>
          \A i \in 1..Len(posts) :
              posts[i].createdAt = Garbage => \E j \in 1..Len(posts') : posts'[j] = posts[i]
      ]_vars

Expired(p, t) == p.createdAt # Garbage /\ p.createdAt < t - RetentionHours

\* C4: after the sweep at time now the store holds precisely the records whose
\* createdAt is not older than now minus 18 hours, in their original order,
\* and the file is written if and only if a record was removed.
C4_EvictExactlyExpired ==
    [][ PurgeStep =>
          /\ posts' = SelectSeq(posts, LAMBDA p : ~Expired(p, now))
          /\ (wq' # wq) <=> (Len(posts') < Len(posts))
      ]_vars

\* the durable write of call c settles in this step without reaching the file
WriteFails(c) == hpc[c] = "writing" /\ hpc'[c] = "done" /\ disk' # Head(wq).data

\* C20: a call whose durable write fails after the append surfaces an error
\* instead of returning true; a later mutation, a retry of the same record
\* included, issues a durable write, and a successful write that leaves no
\* write pending makes the file equal to the in-memory list.
C20_WriteFailure ==
    [][ /\ \A c \in Calls : WriteFails(c) =>
              (hres'[c] = "error" /\ \E i \in 1..Len(posts') : posts'[i] = harg[c])
        /\ \A c, d \in Calls :
              (hres[c] = "error" /\ CallStarts(d) /\ harg'[d] = harg[c]) => hpc'[d] = "writing"
        /\ (disk' # disk /\ wq' = <<>>) => disk' = posts'
      ]_vars


\* C22: after startup no step of ingestion, whether it handles a create, an
\* update or a delete event and whether or not the uri is stored already,
\* removes a stored record, changes a field of one or moves one: the store
\* either stays as it is or gains one record at its end, the record of an
\* event whose uri was not stored.
C22_AppendOnly ==
    [][ /\ \A i \in 1..Len(posts) : i <= Len(posts') /\ posts'[i] = posts[i]
        /\ Len(posts') <= Len(posts) + 1
        /\ Len(posts') = Len(posts) + 1 =>
              /\ sync'.evt.event \in {"create", "update"}
              /\ posts'[Len(posts')].uri = sync'.evt.uri
              /\ \A i \in 1..Len(posts) : posts[i].uri # sync'.evt.uri
      ]_vars

\* an update event for a uri that an earlier create event stored arrived with
\* another payload, and the stored record is the one of the create
C22_Witness ==
    /\ sync.evt.event = "update" /\ sync.evt.uri = NewUri
    /\ sync.evt.record.text = JStr(TextB)
    /\ Len(posts) = 4 /\ posts[4].uri = NewUri /\ posts[4].text = JStr(TextA)
    /\ hres[sync.call] = "false"
-----------------------------------------------------------------------------
(* Claims about the feeds *)

Coffee == SelectSeq(posts, LAMBDA p : p.type = CoffeeType)
CoffeeIdx(uri) == CHOOSE i \in 1..Len(Coffee) : Coffee[i].uri = uri
Parseable(p) == p.createdAt # Garbage

\* record a ranks before record b: newer first, equal createdAt in store order
RanksBefore(a, b) ==
    \/ Coffee[a].createdAt > Coffee[b].createdAt
    \/ Coffee[a].createdAt = Coffee[b].createdAt /\ a < b

\* C5: for a limit n in 1..100 the page is the first n of the coffee-typed
\* records sorted by createdAt descending, equal createdAt in store order.
C5_FeedRanked ==
    (http.route \in {"public", "timeline"} /\ http.hasFeed
        /\ http.q.kind = "int" /\ http.q.n \in 1..MaxLimit)
    => LET feed == http.feed
           inPage == {CoffeeIdx(feed[k].post) : k \in 1..Len(feed)}
       IN  /\ Len(feed) = Min(http.q.n, Len(Coffee))
           /\ \A k \in 1..Len(feed) : \E i \in 1..Len(Coffee) : Coffee[i].uri = feed[k].post
           /\ \A k, l \in 1..Len(feed) : feed[k].post = feed[l].post => k = l
           /\ \A k, l \in 1..Len(feed) :
                 LET a == CoffeeIdx(feed[k].post)
                     b == CoffeeIdx(feed[l].post)
                 IN  (k < l /\ Parseable(Coffee[a]) /\ Parseable(Coffee[b])) => RanksBefore(a, b)
           /\ \A a \in inPage, b \in (1..Len(Coffee)) \ inPage :
                 (Parseable(Coffee[a]) /\ Parseable(Coffee[b])) => RanksBefore(a, b)

\* C6: whatever the limit parameter, a served page holds at most 100 items;
\* an absent limit yields at most 50 and a limit above 100 is treated as 100.
C6_PageCeiling ==
    (http.route \in {"public", "timeline"} /\ http.hasFeed)
    => /\ Len(http.feed) <= MaxLimit
       /\ http.q.kind = "null" => Len(http.feed) <= DefaultLimit
       /\ (http.q.kind = "int" /\ http.q.n > MaxLimit)
             => Len(http.feed) = Min(MaxLimit, Len(Coffee))

\* C7: the cursor is absent exactly when the page is empty, and otherwise is
\* the uri of the last item, which is the returned item with the oldest createdAt.
C7_CursorEcho ==
    (http.route \in {"public", "timeline"} /\ http.hasFeed)
    => LET feed == http.feed
       IN  /\ http.cursor.present <=> feed # <<>>
           /\ feed # <<>> =>
                 /\ http.cursor.uri = feed[Len(feed)].post
                 /\ \A k \in 1..Len(feed) :
                       LET last == Coffee[CoffeeIdx(feed[Len(feed)].post)]
                           item == Coffee[CoffeeIdx(feed[k].post)]
                       IN  (Parseable(last) /\ Parseable(item))
                             => last.createdAt <= item.createdAt

\* C11: no item of the personalized timeline whose post uri has the requesting
\* identity as its repository carries a 'following' reason, and the 'by' field
\* of every reason is the DID extracted from the item's uri.
C11_OwnPostsUnannotated ==
    (http.route = "timeline" /\ http.hasFeed)
    => \A k \in 1..Len(http.feed) :
           LET item == http.feed[k]
           IN  /\ item.post.repo = http.auth.sub => ~item.reason.present
               /\ item.reason.present =>
                     item.reason.by =
                         IF SubSeq(item.post.repo, 1, 4) = DidPrefix /\ Len(item.post.repo) > 4
                         THEN item.post.repo ELSE <<>>


\* limits as the two generators may receive them: the default, NaN, negative,
\* zero, and values up to and above the ceiling the routes apply
FeedLimits == {ParseLimit(q) : q \in LimitParams}
FeedUsers == {DidA, DidC, DidPrefix}

PostUris(items) == [k \in 1..Len(items) |-> items[k].post]

\* C23: for the store snapshot, every limit and every requesting identity,
\* generatePersonalizedTimeline returns the same sequence of post uris as
\* generateCoffeeFeed; its items differ from the public ones only in the
\* reason, which the public items never carry.
C23_FeedsAgree ==
    \A limit \in FeedLimits, userDid \in FeedUsers :
        LET timeline == GeneratePersonalizedTimeline(userDid, posts, limit)
            feed == GenerateCoffeeFeed(posts, limit)
        IN  /\ PostUris(timeline) = PostUris(feed)
            /\ \A k \in 1..Len(feed) : ~feed[k].reason.present

\* a timeline was served from a snapshot whose last record is the newest and
\* whose first record is filtered out; its first item carries a reason, and its
\* uris are those of the public feed for the same limit
C23_Witness ==
    /\ http.route = "timeline" /\ http.hasFeed
    /\ Len(posts) = 3 /\ Len(http.feed) = 2
    /\ ~IsCoffeeBeanPost(posts[1])
    /\ http.feed[1].post = posts[3].uri
    /\ http.feed[1].reason.present
    /\ PostUris(http.feed) = PostUris(GenerateCoffeeFeed(posts, RequestLimit(http.q)))

\* a step that leaves the handlers, the addPost calls, the write queue and the
\* file alone: a feed request
FeedRequestStep ==
    /\ frames' = frames /\ sync' = sync
    /\ hpc' = hpc /\ harg' = harg /\ hres' = hres
    /\ wq' = wq /\ disk' = disk

\* C21: a request for the public feed or the personalized timeline, at
\* whatever point of the ingestion it is served, leaves the records of the
\* store, their order and their number as they were, and every uri of the page
\* it returns is the uri of a record the store held when the request read it.
C21_FeedsDoNotMutate ==
    [][ FeedRequestStep =>
          /\ posts' = posts
          /\ http'.hasFeed =>
                \A k \in 1..Len(http'.feed) :
                    \E i \in 1..Len(posts) : posts[i].uri = http'.feed[k].post
      ]_vars

\* a timeline was served while a handler awaits the durable write of the
\* record it appended; the page names it, and the store is still in arrival
\* order with its newest record in the middle
C21_Witness ==
    /\ http.route = "timeline" /\ http.hasFeed
    /\ Len(posts) = 4 /\ posts[3].createdAt > posts[4].createdAt
    /\ Len(disk) = 3 /\ wq # <<>>
    /\ \E h \in 1..Len(frames) : frames[h].pc = "addPost"
    /\ \E k \in 1..Len(http.feed) : http.feed[k].post = posts[4].uri
-----------------------------------------------------------------------------
(* Claims about ingestion *)

\* handler h leaves the validation of its current operation in this step
Validates(h) == h <= Len(frames) /\ frames[h].pc = "readCar" /\ frames'[h] # frames[h]
\* ... by handing a record to addPost
Accepts(h) == Validates(h) /\ frames'[h].pc = "addPost"

OpOf(h) == frames[h].frame.ops[frames[h].opi]
PayloadOf(h) == OpOf(h).block.record
Decodable(h) == frames[h].frame.blocks = "car" /\ OpOf(h).block.kind = "record"

NonEmptyString(v) == v.t = "str" /\ v.s # <<>>

RequiredPresent(r) ==
    r.type = CoffeeType /\ NonEmptyString(r.text) /\ NonEmptyString(r.createdAt)

\* the record the accepting step of handler h hands to addPost
Handed(h) == harg'[frames'[h].call]
\* the store appends exactly record p, or holds p's uri already and is unchanged
StoresOrHas(p) ==
    IF \E i \in 1..Len(posts) : posts[i].uri = p.uri
    THEN posts' = posts
    ELSE posts' = posts \o <<p>>

KeptIfString(stored, given) == stored = IF given.t = "str" THEN given ELSE JUndef

\* C13: a payload that passes the required-field checks is accepted whatever
\* the types of its optional fields; the stored record carries beanName,
\* origin, roastLevel and brewMethod only when they are strings and rating
\* only when it is a number, and has the field absent otherwise.
C13_OptionalLaundering ==
    [][ \A h \in Handlers : Validates(h) =>
          /\ (Decodable(h) /\ RequiredPresent(PayloadOf(h))) => Accepts(h)
          /\ Accepts(h) =>
                /\ StoresOrHas(Handed(h))
                /\ KeptIfString(Handed(h).beanName, PayloadOf(h).beanName)
                /\ KeptIfString(Handed(h).origin, PayloadOf(h).origin)
                /\ KeptIfString(Handed(h).roastLevel, PayloadOf(h).roastLevel)
                /\ KeptIfString(Handed(h).brewMethod, PayloadOf(h).brewMethod)
                /\ Handed(h).rating = IF PayloadOf(h).rating.t = "num"
                                      THEN PayloadOf(h).rating ELSE JUndef
      ]_vars

\* a payload whose rating is a string was stored with rating absent
C13_Witness ==
    \E h \in 1..Len(frames) :
        /\ frames[h].pc = "addPost"
        /\ frames[h].frame.ops[1].block.record.rating = JStr(TextA)
        /\ frames[h].frame.ops[1].block.record.beanName = JNum(5)
        /\ Len(posts) = 1 /\ posts[1].rating = JUndef /\ posts[1].beanName = JUndef

WholeLocation(l) == l.t = "obj" /\ l.lat.t = "str" /\ l.lng.t = "str"

\* C14: the location of every stored record is absent or an object with both
\* lat and lng strings, equal to the payload's; a payload location with one
\* coordinate, a coordinate that is no string or a shape that is no object is
\* stored as no location.
C14_LocationAllOrNothing ==
    /\ [](\A i \in 1..Len(posts) :
            posts[i].location = LocUndef \/ WholeLocation(posts[i].location))
    /\ [][ \A h \in Handlers : Accepts(h) =>
             /\ StoresOrHas(Handed(h))
             /\ Handed(h).location =
                   IF WholeLocation(PayloadOf(h).location)
                   THEN [t |-> "obj", lat |-> PayloadOf(h).location.lat,
                         lng |-> PayloadOf(h).location.lng]
                   ELSE LocUndef
         ]_vars

\* a payload with lat only was stored without a location
C14_Witness ==
    \E h \in 1..Len(frames) :
        /\ frames[h].pc = "addPost"
        /\ frames[h].frame.ops[1].block.record.location = LocObj(JStr(Lat), JUndef)
        /\ Len(posts) = 1 /\ posts[1].location = LocUndef

Alive(s) == socks[s] \in {"connecting", "open"}

\* the ingestor was started, not stopped, and has no connecting or open socket
Disconnected == life = "started" /\ \A s \in Socks : ~Alive(s)

\* C15: whenever the started ingestor has lost its connection (after an error,
\* a close or a failed connect attempt) a reconnect is pending, with a delay of
\* 3 seconds, and unless the ingestor is stopped a socket is connecting again
\* later, however many losses went before.
C15_Reconnects ==
    /\ [](\A i \in 1..Len(timers) : timers[i] = 3000)
    /\ [](Disconnected =>
            (timers # <<>> \/ \E s \in Socks : socks[s] \in {"failed", "closing"}))
    /\ [](Disconnected => <>(life = "stopped" \/ \E s \in Socks : socks[s] = "connecting"))

\* a second connection is being attempted after the first, which had
\* delivered a frame, was lost
C15_Witness ==
    /\ life = "started"
    /\ \E s, t \in Socks :
          /\ socks[s] = "closed" /\ socks[t] = "connecting"
          /\ \E h \in 1..Len(frames) : frames[h].sock = s

\* C16: the step of stop() leaves no connecting or open socket, and once
\* stop() has been called no socket starts connecting: neither after the close
\* event that stop() causes nor when a timer pending at stop() fires.
C16_StopIsFinal ==
    [][ /\ (life = "started" /\ life' = "stopped") => \A s \in Socks : ~Alive(s)'
        /\ life = "stopped" =>
              \A s \in Socks : socks'[s] = "connecting" => socks[s] = "connecting"
      ]_vars

\* C17: when processCoffeePost hands the valid payload of a create operation
\* to the store and the uri at://<commit.repo>/<op.path> is not stored yet,
\* getPostByUri of that uri afterwards returns a record with the payload's text
\* and createdAt and the string form of the operation's block identifier; no
\* later step changes or removes it.
C17_EndToEnd ==
    [][ /\ \A h \in Handlers :
              LET u == [repo |-> frames[h].frame.repo, path |-> OpOf(h).path]
                  r == GetPostByUri(posts', u)
              IN  (Accepts(h) /\ \A i \in 1..Len(posts) : posts[i].uri # u) =>
                      /\ \E i \in 1..Len(posts') : posts'[i].uri = u
                      /\ r.text = PayloadOf(h).text
                      /\ r.createdAt = PayloadOf(h).createdAt.s[1]
                      /\ r.cid = JStr(<<OpOf(h).cid>>)
        /\ Len(posts') >= Len(posts)
        /\ \A i \in 1..Len(posts) : posts'[i] = posts[i]
      ]_vars

\* the second create of a two-operation commit is stored and written, with
\* its text and block identifier
C17_Witness ==
    /\ disk = posts
    /\ \E i \in 1..Len(posts) :
          /\ posts[i].uri = Uri(DidC, CoffeePath(2))
          /\ posts[i].text = JStr(TextB) /\ posts[i].cid = JStr(<<6>>)
          /\ GetPostByUri(posts, Uri(DidC, CoffeePath(2))) = posts[i]

\* the handler whose frame holds the create operation that record p was built from
FrameOfRecord(p) ==
    CHOOSE h \in 1..Len(frames) :
        \E k \in 1..Len(frames[h].frame.ops) :
            /\ p.uri = [repo |-> frames[h].frame.repo, path |-> frames[h].frame.ops[k].path]
            /\ p.cid = JStr(<<frames[h].frame.ops[k].cid>>)

\* handler h starts, or goes on, in this step
Proceeds(h) == h <= Len(frames') /\ (h > Len(frames) \/ frames'[h] # frames[h])

\* C18: on one connection a frame's handler starts or goes on only when the
\* handlers of all earlier frames of that connection have finished, so the
\* records of the store are in the order in which their frames arrived.
C18_OneFrameAtATime ==
    /\ [](\A i, j \in 1..Len(posts) :
            (i < j /\ frames[FrameOfRecord(posts[i])].sock = frames[FrameOfRecord(posts[j])].sock)
                => FrameOfRecord(posts[i]) <= FrameOfRecord(posts[j]))
    /\ [][ \A g, h \in Handlers :
              (g < h /\ Proceeds(h) /\ frames'[g].sock = frames'[h].sock)
                  => frames[g].pc = "done"
         ]_vars

\* the frame does not decode, is no commit, or has no create operation on the
\* coffee collection whose payload decodes and passes validation
IrrelevantFrame(f) ==
    \/ f.kind # "commit"
    \/ \A k \in 1..Len(f.ops) :
          ~ /\ f.ops[k].action = "create" /\ f.ops[k].path.coll = CoffeeType
            /\ f.ops[k].cid # 0 /\ f.blocks = "car" /\ f.ops[k].block.kind = "record"
            /\ RequiredPresent(f.ops[k].block.record)

\* C19: every step of the handler of an irrelevant or malformed frame leaves
\* the store, the pending writes, the addPost calls, the sockets, the client's
\* socket reference and the timers unchanged, and the handler never reaches
\* addPost; the connection stays open for later frames.
C19_IrrelevantAbsorbed ==
    [][ \A h \in Handlers :
          (Proceeds(h) /\ IrrelevantFrame(frames'[h].frame)) =>
              /\ UNCHANGED <<storevars, life, ws, socks, timers>>
              /\ frames'[h].pc \in {"decode", "readCar", "done"}
              /\ frames'[h].call = 0
              /\ socks'[frames'[h].sock] = "open"
      ]_vars

\* after a frame whose payload was rejected was dropped, the next frame of the
\* same connection was processed and its record stored
C19_Witness ==
    /\ Len(frames) = 2
    /\ IrrelevantFrame(frames[1].frame) /\ frames[1].pc = "done"
    /\ frames[1].frame.kind = "commit" /\ frames[1].frame.ops # <<>>
    /\ frames[1].frame.ops[1].block.kind = "record"
    /\ frames[2].sock = frames[1].sock /\ frames[2].pc = "done"
    /\ Len(posts) = 1 /\ posts[1].uri = Uri(DidC, CoffeePath(2)) /\ disk = posts


\* C24: once start() was called, the sockets that are connecting or open and
\* the pending reconnect timers number at most one together, whatever open,
\* error and close events and failed connect attempts occur.
C24_SingleConnection ==
    life # "constructed" =>
        Cardinality({s \in Socks : socks[s] \in {"connecting", "open"}}) + Len(timers) <= 1

\* the socket the client refers to has closed, no socket is connecting or
\* open, and exactly one reconnect timer is pending
C24_Witness ==
    /\ life = "started"
    /\ Len(timers) = 1
    /\ ws # 0 /\ socks[ws] = "closed"
    /\ \A s \in Socks : socks[s] \in {"unused", "closed"}
-----------------------------------------------------------------------------
(* Claims about authentication *)

NonEmpty(v) == ~(v.t = "undef" \/ (v.t = "str" /\ v.s = <<>>))

\* the token of the last timeline request passes the checks that precede the
\* scope check: Bearer header, decodable, subject/audience/issuer non-empty,
\* not expired, subject starting with "did:"
PassesUpToScope ==
    LET h == http.header
        d == h.claims
    IN  /\ h.present /\ h.scheme = "Bearer " /\ h.kind = "jwt"
        /\ NonEmpty(d.sub) /\ NonEmpty(d.aud) /\ NonEmpty(d.iss)
        /\ ~(d.exp.t = "num" /\ d.exp.n < now)
        /\ d.sub.t = "str" /\ StartsWith(d.sub.s, DidPrefix)

ScopeHasMarker ==
    http.header.claims.scope.t = "str" /\ Includes(http.header.claims.scope.s, Atproto)

\* C8: the verifier answers 403 exactly when every check before the scope
\* check passes and the scope lacks the marker, 401 on every other rejection,
\* and success only when all checks pass.
C8_AuthClassification ==
    http.route = "timeline"
    => /\ http.auth.status = 403 <=> (PassesUpToScope /\ ~ScopeHasMarker)
       /\ (~http.auth.success /\ ~(PassesUpToScope /\ ~ScopeHasMarker)) => http.auth.status = 401
       /\ http.auth.success => (PassesUpToScope /\ ScopeHasMarker)

\* C9: a token whose exp is a number earlier than the current time is never
\* accepted; with subject, audience and issuer present it is rejected with
\* status 401 and the reason "Token expired".
C9_ExpiredRejected ==
    LET h == http.header
    IN  (http.route = "timeline" /\ h.present /\ h.scheme = "Bearer " /\ h.kind = "jwt"
            /\ h.claims.exp.t = "num" /\ h.claims.exp.n < now)
        => /\ ~http.auth.success
           /\ (NonEmpty(h.claims.sub) /\ NonEmpty(h.claims.aud) /\ NonEmpty(h.claims.iss))
                 => (http.auth.status = 401 /\ http.auth.error = "Token expired")

\* C10: the timeline endpoint answers 200 with a feed only when the verifier
\* returned success; on a rejection it answers with the verifier's status
\* (401 or 403) and reason, and reads no posts from the store.
C10_NoFeedWithoutAuth ==
    http.route = "timeline"
    => /\ http.auth = VerifyAuthToken(http.header, now)
       /\ (http.status = 200 \/ http.hasFeed \/ http.readPosts \/ http.feed # <<>>)
             => http.auth.success
       /\ ~http.auth.success =>
             /\ http.status = http.auth.status
             /\ http.status \in {401, 403}
             /\ http.error = http.auth.error
             /\ ~http.hasFeed /\ ~http.readPosts
             /\ http.feed = <<>> /\ ~http.cursor.present

\* a request with insufficient scope was answered 403 while the store held posts
C10_Witness ==
    /\ http.route = "timeline"
    /\ http.status = 403 /\ http.error = "Insufficient scope"
    /\ Coffee # <<>>

====
